---- MODULE Spec2Model ----
(***************************************************************************)
(* Cap-table evolution engine of the funding simulator                     *)
(* (src/unnamed/part_002, the current lib/calculations.ts).                *)
(*                                                                         *)
(* getCapTables() reads three stores (founders, events, exit) and returns  *)
(* the list of cap-table snapshots.  The stores are drawn in Init; the     *)
(* actions are the body of the events.forEach loop and the exit block.     *)
(*                                                                         *)
(* Numbers.  The code computes in IEEE doubles.  The model computes in     *)
(* exact rationals <<n, d>> (d > 0, lowest terms), extended with the       *)
(* values a division by zero produces in JavaScript: <<1,0>> = Infinity,   *)
(* <<-1,0>> = -Infinity, <<0,0>> = NaN.  Rounding error of doubles and     *)
(* the sign of zero are not modelled.                                      *)
(*                                                                         *)
(* Share counts.  Every share count the code produces is INITIAL_SHARES    *)
(* times a rational function of the other inputs.  To keep numerators      *)
(* inside TLC's integers a share count s is stored as s / INITIAL_SHARES   *)
(* (see ToUnits); Shares(q) converts back.                                 *)
(***************************************************************************)
EXTENDS Integers, Sequences, FiniteSets, TLC

VARIABLES founders, events, exit, tables, lastPricedRoundIndex, index, pc, conv

vars == <<founders, events, exit, tables, lastPricedRoundIndex, index, pc, conv>>

-----------------------------------------------------------------------------
(* Number arithmetic (JavaScript number operators on the extended rationals) *)

RECURSIVE GCD(_, _)
GCD(a, b) == IF b = 0 THEN a ELSE GCD(b, a % b)

Abs(n) == IF n < 0 THEN -n ELSE n

Sign(n) == IF n > 0 THEN 1 ELSE IF n < 0 THEN -1 ELSE 0

\* n / d as a number in lowest terms; d = 0 gives Infinity, -Infinity or NaN
R(n, d) ==
  IF d = 0 THEN <<Sign(n), 0>>
  ELSE LET g == GCD(Abs(n), Abs(d))
       IN  <<(Sign(d) * n) \div g, Abs(d) \div g>>

RI(n) == <<n, 1>>

Zero == <<0, 1>>

One == <<1, 1>>

NaN == <<0, 0>>

IsNaN(a) == a = NaN

IsFinite(a) == a[2] # 0

\* a * b
RMul(a, b) ==
  IF a[2] = 0 \/ b[2] = 0 THEN <<Sign(a[1]) * Sign(b[1]), 0>>
  ELSE LET g1 == GCD(Abs(a[1]), b[2])
           g2 == GCD(Abs(b[1]), a[2])
       IN  <<(a[1] \div g1) * (b[1] \div g2), (a[2] \div g2) * (b[2] \div g1)>>

\* 1 / a
RInv(a) ==
  IF a[1] > 0 THEN <<a[2], a[1]>>
  ELSE IF a[1] < 0 THEN <<-a[2], -a[1]>>
  ELSE IF a[2] = 0 THEN NaN ELSE <<1, 0>>

\* a / b
RDiv(a, b) == RMul(a, RInv(b))

\* a + b
RAdd(a, b) ==
  IF a[2] = 0 /\ b[2] = 0 THEN (IF a[1] = b[1] THEN a ELSE NaN)
  ELSE IF a[2] = 0 THEN a
  ELSE IF b[2] = 0 THEN b
  ELSE LET g == GCD(a[2], b[2])
       IN  R(a[1] * (b[2] \div g) + b[1] * (a[2] \div g), (a[2] \div g) * b[2])

RNeg(a) == <<-a[1], a[2]>>

\* a - b
RSub(a, b) == RAdd(a, RNeg(b))

\* a < b (false when either side is NaN)
RLt(a, b) ==
  IF a[2] = 0 \/ b[2] = 0
  THEN /\ ~IsNaN(a) /\ ~IsNaN(b)
       /\ (IF a[2] = 0 THEN a[1] ELSE 0) < (IF b[2] = 0 THEN b[1] ELSE 0)
  ELSE LET g == GCD(a[2], b[2]) IN a[1] * (b[2] \div g) < b[1] * (a[2] \div g)

\* a <= b (false when either side is NaN)
RLe(a, b) == ~IsNaN(a) /\ ~IsNaN(b) /\ ~RLt(b, a)

\* Math.min(a, b)
RMin(a, b) == IF IsNaN(a) \/ IsNaN(b) THEN NaN ELSE IF RLt(b, a) THEN b ELSE a

\* JavaScript truthiness of a number: 0 and NaN are falsy
Truthy(a) == a[1] # 0

\* a || b on numbers
ROr(a, b) == IF Truthy(a) THEN a ELSE b

-----------------------------------------------------------------------------
(* Program constants *)

INITIAL_SHARES == 10000000

AVAILABLE_OPTIONS_LABEL == "Available"

EMPLOYEE_OPTIONS_LABEL == "Employees"

\* Math.min(totalSafesDilution + totalNotesDilution, 0.999)
DILUTION_CAP == R(999, 1000)

\* exitPricedRound.monthsToRound
EXIT_MONTHS_TO_ROUND == 12

\* a share count of the code, in the model's unit
ToUnits(s) == RDiv(s, RI(INITIAL_SHARES))

\* the share count of the code for a stored quantity
Shares(q) == RMul(q, RI(INITIAL_SHARES))

-----------------------------------------------------------------------------
(* Cap tables: CapTable = { [key: string]: number } *)

EmptyTable == [k \in {} |-> Zero]

Has(t, k) == k \in DOMAIN t

\* table[key] || 0
Get(t, k) == IF k \in DOMAIN t THEN ROr(t[k], Zero) ELSE Zero

RECURSIVE SumOver(_, _)
SumOver(t, ks) ==
  IF ks = {} THEN Zero
  ELSE LET k == CHOOSE x \in ks : TRUE
       IN  RAdd(t[k], SumOver(t, ks \ {k}))

getTableTotalShares(t) == SumOver(t, DOMAIN t)

addTables(oldTable, table) ==
  [k \in DOMAIN oldTable \cup DOMAIN table |->
     IF k \in DOMAIN table THEN RAdd(Get(oldTable, k), table[k]) ELSE oldTable[k]]

\* mutant: the founders split the initial shares equally
getFirstTable_equalSplit(fs) ==
  [n \in {fs[i].name : i \in DOMAIN fs} |-> R(1, Len(fs))]

getFirstTable(fs) ==
  [n \in {fs[i].name : i \in DOMAIN fs} |->
     LET i == CHOOSE j \in DOMAIN fs :
                fs[j].name = n /\ \A l \in DOMAIN fs : fs[l].name = n => l <= j
     IN  ToUnits(RMul(R(fs[i].equity, 100), RI(INITIAL_SHARES)))]

-----------------------------------------------------------------------------
(* Instrument valuation, MFN and conversion.  Array positions are 0-based  *)
(* as in the code: event i of the store is evs[i + 1].                     *)

Indices(evs) == 0 .. (Len(evs) - 1)

Ev(evs, i) == evs[i + 1]

\* events.findIndex((e) => e.type === type && e.name === name)
findIndex(evs, type, name) ==
  LET hits == {i \in Indices(evs) : Ev(evs, i).type = type /\ Ev(evs, i).name = name}
  IN  IF hits = {} THEN -1 ELSE CHOOSE i \in hits : \A j \in hits : i <= j

\* mutant: a cap without discount is taken as it is (valuation = safe.valCap)
effectiveValuation_capAsIs(valCap, discount, roundValuation) ==
  LET V == RI(roundValuation)
      discounted == RMul(V, RSub(One, R(discount, 100)))
  IN  IF valCap # 0 /\ discount # 0 THEN RMin(RI(valCap), discounted)
      ELSE IF valCap # 0 /\ discount = 0 THEN RI(valCap)
      ELSE IF valCap = 0 /\ discount # 0 THEN discounted
      ELSE V

\* mutant: a cap overrides the round valuation and the discount
effectiveValuation_capOverrides(valCap, discount, roundValuation) ==
  IF valCap # 0 THEN RI(valCap)
  ELSE RMul(RI(roundValuation), RSub(One, R(discount, 100)))

\* the valuation an instrument with (valCap, discount) converts at, before MFN
effectiveValuation(valCap, discount, roundValuation) ==
  LET V == RI(roundValuation)
      discounted == RMul(V, RSub(One, R(discount, 100)))
  IN  IF valCap # 0 /\ discount # 0 THEN RMin(RI(valCap), discounted)
      ELSE IF valCap # 0 /\ discount = 0 THEN RMin(RI(valCap), V)
      ELSE IF valCap = 0 /\ discount # 0 THEN discounted
      ELSE V

\* mutant: the index range is ignored, every SAFE of the store converts
getSafesValuations_noRange(evs, pricedRound, afterIndex, beforeOrAtIndex) ==
  [idx \in {i \in Indices(evs) : Ev(evs, i).type = "safe"} |->
     LET safe == Ev(evs, idx)
     IN  [name       |-> safe.name,
          mfn        |-> safe.mfn,
          amount     |-> RI(safe.amount),
          valuation  |-> effectiveValuation(safe.valCap, safe.discount, pricedRound.valuation),
          eventIndex |-> findIndex(evs, "safe", safe.name)]]

getSafesValuations(evs, pricedRound, afterIndex, beforeOrAtIndex) ==
  [idx \in {i \in Indices(evs) :
              Ev(evs, i).type = "safe" /\ i > afterIndex /\ i <= beforeOrAtIndex} |->
     LET safe == Ev(evs, idx)
     IN  [name       |-> safe.name,
          mfn        |-> safe.mfn,
          amount     |-> RI(safe.amount),
          valuation  |-> effectiveValuation(safe.valCap, safe.discount, pricedRound.valuation),
          eventIndex |-> findIndex(evs, "safe", safe.name)]]

\* reduce((min, current) => current.valuation < min ? current.valuation : min, start)
RECURSIVE lowestValuation(_, _, _)
lowestValuation(insts, ks, start) ==
  IF ks = {} THEN start
  ELSE LET k == CHOOSE x \in ks : TRUE
           rest == lowestValuation(insts, ks \ {k}, start)
       IN  IF RLt(insts[k].valuation, rest) THEN insts[k].valuation ELSE rest

\* mutant: every other instrument of the cohort is a peer, earlier ones too
laterInstruments_anyPeer(own, other, eventIndex) ==
  LET a == {<<"own", k>> : k \in {j \in DOMAIN own : own[j].eventIndex # eventIndex}}
      b == {<<"other", k>> : k \in {j \in DOMAIN other : other[j].eventIndex # eventIndex}}
  IN  [t \in a \cup b |-> IF t[1] = "own" THEN own[t[2]] ELSE other[t[2]]]

\* the later instruments of both arrays, tagged so that the two stay apart
laterInstruments(own, other, eventIndex) ==
  LET a == {<<"own", k>> : k \in {j \in DOMAIN own : own[j].eventIndex > eventIndex}}
      b == {<<"other", k>> : k \in {j \in DOMAIN other : other[j].eventIndex > eventIndex}}
  IN  [t \in a \cup b |-> IF t[1] = "own" THEN own[t[2]] ELSE other[t[2]]]

withMFN(own, other) ==
  [k \in DOMAIN own |->
     IF ~own[k].mfn THEN own[k]
     ELSE LET allLaterInstruments == laterInstruments(own, other, own[k].eventIndex)
          IN  IF DOMAIN allLaterInstruments = {} THEN own[k]
              ELSE [own[k] EXCEPT !.valuation =
                      lowestValuation(allLaterInstruments, DOMAIN allLaterInstruments,
                                      own[k].valuation)]]

getSafesWithMFN(safes, notes) == withMFN(safes, notes)

\* mutant: interest runs until the conversion, past maturity too
getConvertibleNoteAccruedAmount_pastMaturity(note, monthsToConversion) ==
  RAdd(RI(note.amount),
       RMul(RMul(RI(note.amount), R(note.interestRate, 100)), R(monthsToConversion, 12)))

\* principal plus simple interest over min(monthsToConversion, term) months
getConvertibleNoteAccruedAmount(note, monthsToConversion) ==
  LET effectiveMonths == IF monthsToConversion < note.term THEN monthsToConversion
                         ELSE note.term
      accruedInterest == RMul(RMul(RI(note.amount), R(note.interestRate, 100)),
                              R(effectiveMonths, 12))
  IN  RAdd(RI(note.amount), accruedInterest)

getConvertibleNotesValuations(evs, pricedRound, afterIndex, beforeOrAtIndex) ==
  [idx \in {i \in Indices(evs) :
              Ev(evs, i).type = "convertible" /\ i > afterIndex /\ i <= beforeOrAtIndex} |->
     LET note == Ev(evs, idx)
     IN  [name       |-> note.name,
          mfn        |-> note.mfn,
          amount     |-> getConvertibleNoteAccruedAmount(note, pricedRound.monthsToRound),
          valuation  |-> effectiveValuation(note.valCap, note.discount, pricedRound.valuation),
          eventIndex |-> findIndex(evs, "convertible", note.name)]]

\* mutant: a note looks at later notes only
getConvertibleNotesWithMFN_notesOnly(notes, safes) ==
  withMFN(notes, [k \in {} |-> notes])

getConvertibleNotesWithMFN(notes, safes) == withMFN(notes, safes)

\* reduce((prev, curr) => prev + curr.amount / curr.valuation, 0)
RECURSIVE totalDilutionOf(_, _)
totalDilutionOf(insts, ks) ==
  IF ks = {} THEN Zero
  ELSE LET k == CHOOSE x \in ks : TRUE
       IN  RAdd(RDiv(insts[k].amount, insts[k].valuation), totalDilutionOf(insts, ks \ {k}))

\* mutant: the dilution sum is capped but the instruments are not scaled down
conversionShares_noHaircut(mine, theirs, totalShares) ==
  LET rawDilution == RAdd(totalDilutionOf(mine, DOMAIN mine),
                          totalDilutionOf(theirs, DOMAIN theirs))
      totalDilution == RMin(rawDilution, DILUTION_CAP)
      newTotal == RDiv(totalShares, RSub(One, totalDilution))
  IN  [n \in {mine[k].name : k \in DOMAIN mine} |->
         LET k == CHOOSE j \in DOMAIN mine :
                    mine[j].name = n /\ \A l \in DOMAIN mine : mine[l].name = n => l <= j
         IN  RMul(newTotal, RDiv(mine[k].amount, mine[k].valuation))]

\* mutant: each kind of instrument converts on the dilution sum of its own kind
conversionShares_ownKindOnly(mine, theirs, totalShares) ==
  LET rawDilution == totalDilutionOf(mine, DOMAIN mine)
      totalDilution == RMin(rawDilution, DILUTION_CAP)
      newTotal == RDiv(totalShares, RSub(One, totalDilution))
      dilutionRatio == RDiv(totalDilution, ROr(rawDilution, One))
  IN  [n \in {mine[k].name : k \in DOMAIN mine} |->
         LET k == CHOOSE j \in DOMAIN mine :
                    mine[j].name = n /\ \A l \in DOMAIN mine : mine[l].name = n => l <= j
         IN  RMul(newTotal, RMul(RDiv(mine[k].amount, mine[k].valuation), dilutionRatio))]

\* the shares of the instruments `mine` when `mine` and `theirs` convert together
conversionShares(mine, theirs, totalShares) ==
  LET rawDilution == RAdd(totalDilutionOf(mine, DOMAIN mine),
                          totalDilutionOf(theirs, DOMAIN theirs))
      totalDilution == RMin(rawDilution, DILUTION_CAP)
      newTotal == RDiv(totalShares, RSub(One, totalDilution))
      dilutionRatio == RDiv(totalDilution, ROr(rawDilution, One))
  IN  [n \in {mine[k].name : k \in DOMAIN mine} |->
         \* forEach assigns table[name]: the last instrument of that name wins
         LET k == CHOOSE j \in DOMAIN mine :
                    mine[j].name = n /\ \A l \in DOMAIN mine : mine[l].name = n => l <= j
             effectiveDilution == RMul(RDiv(mine[k].amount, mine[k].valuation), dilutionRatio)
         IN  RMul(newTotal, effectiveDilution)]

\* mutant: the MFN peers of a SAFE are drawn from the whole store
getSafesWithNotes_peersFromStore(evs, pricedRound, totalShares, afterIndex, beforeOrAtIndex) ==
  LET safesBase == getSafesValuations(evs, pricedRound, afterIndex, beforeOrAtIndex)
      notesBase == getConvertibleNotesValuations(evs, pricedRound, afterIndex, beforeOrAtIndex)
      allSafes == getSafesValuations(evs, pricedRound, -1, Len(evs) - 1)
      allNotes == getConvertibleNotesValuations(evs, pricedRound, -1, Len(evs) - 1)
      notesWithMFN == getConvertibleNotesWithMFN(notesBase, safesBase)
      safesWithMFN == [j \in DOMAIN safesBase |-> getSafesWithMFN(allSafes, allNotes)[j]]
  IN  conversionShares(safesWithMFN, notesWithMFN, totalShares)

getSafesWithNotes(evs, pricedRound, totalShares, afterIndex, beforeOrAtIndex) ==
  LET safesBase == getSafesValuations(evs, pricedRound, afterIndex, beforeOrAtIndex)
      notesBase == getConvertibleNotesValuations(evs, pricedRound, afterIndex, beforeOrAtIndex)
      notesWithMFN == getConvertibleNotesWithMFN(notesBase, safesBase)
      safesWithMFN == getSafesWithMFN(safesBase, notesBase)
  IN  conversionShares(safesWithMFN, notesWithMFN, totalShares)

getConvertibleNotes(evs, pricedRound, totalShares, afterIndex, beforeOrAtIndex) ==
  LET safesBase == getSafesValuations(evs, pricedRound, afterIndex, beforeOrAtIndex)
      notesBase == getConvertibleNotesValuations(evs, pricedRound, afterIndex, beforeOrAtIndex)
      notesWithMFN == getConvertibleNotesWithMFN(notesBase, safesBase)
      safesWithMFN == getSafesWithMFN(safesBase, notesBase)
  IN  conversionShares(notesWithMFN, safesWithMFN, totalShares)

-----------------------------------------------------------------------------
(* Option pool, pro-rata and option events *)

\* mutant: the new pool shares are never less than zero
getNewOptions_clampedAtZero(currentShares, optionsTaget, existingAvailableOptions, newInvestment, preMoneyValuation) ==
  LET f1 == RSub(RDiv(One, optionsTaget), One)
      top == RSub(RMul(RDiv(currentShares, f1),
                       RAdd(One, RDiv(newInvestment, preMoneyValuation))),
                  RDiv(existingAvailableOptions, RSub(One, optionsTaget)))
      bottom == RSub(One, RDiv(newInvestment, RMul(preMoneyValuation, f1)))
  IN  IF RLt(RDiv(top, bottom), Zero) THEN Zero ELSE RDiv(top, bottom)

\* mutant: the pool is sized as if the round brought no investment
getNewOptions_withoutInvestment(currentShares, optionsTaget, existingAvailableOptions, newInvestment, preMoneyValuation) ==
  RSub(RDiv(currentShares, RSub(RDiv(One, optionsTaget), One)),
       RDiv(existingAvailableOptions, RSub(One, optionsTaget)))

getNewOptions(currentShares, optionsTaget, existingAvailableOptions, newInvestment, preMoneyValuation) ==
  LET f1 == RSub(RDiv(One, optionsTaget), One)
      top == RSub(RMul(RDiv(currentShares, f1),
                       RAdd(One, RDiv(newInvestment, preMoneyValuation))),
                  RDiv(existingAvailableOptions, RSub(One, optionsTaget)))
      bottom == RSub(One, RDiv(newInvestment, RMul(preMoneyValuation, f1)))
  IN  RDiv(top, bottom)

\* allEvents.forEach over the events 0 .. upto, accumulating into proRatas
RECURSIVE proRatasUpTo(_, _, _, _, _, _, _)
proRatasUpTo(allEvents, upto, current, event, newShares, total, firstPricedRound) ==
  IF upto < 0 THEN EmptyTable
  ELSE LET before == proRatasUpTo(allEvents, upto - 1, current, event, newShares,
                                  total, firstPricedRound)
           e == Ev(allEvents, upto)
       IN  IF e.type \notin {"priced", "safe", "convertible"} THEN before
           ELSE IF e.type \in {"safe", "convertible"} /\ ~firstPricedRound THEN before
           ELSE IF ~e.proRata \/ ~Truthy(Get(current, e.name)) \/ e.name = event.name
                THEN before
           ELSE LET shares == RMul(newShares, RDiv(current[e.name], total))
                IN  IF Truthy(shares) /\ e.name \in event.participations
                    THEN addTables(before, [k \in {e.name} |-> shares])
                    ELSE before

\* mutant: the award is the holder's fraction of the post-round total
getProRatas_ofFutureTotal(current, event, newShares, total, firstPricedRound, allEvents) ==
  [h \in {allEvents[n].name : n \in
            {m \in DOMAIN allEvents :
               /\ allEvents[m].type \in {"priced", "safe", "convertible"}
               /\ allEvents[m].type = "priced" \/ firstPricedRound
               /\ allEvents[m].proRata
               /\ Truthy(Get(current, allEvents[m].name))
               /\ allEvents[m].name # event.name
               /\ allEvents[m].name \in event.participations}} |->
     RMul(newShares, RDiv(current[h], RAdd(total, newShares)))]

\* mutant: SAFE and note holders take pro-rata at every priced round
getProRatas_atEveryRound(current, event, newShares, total, firstPricedRound, allEvents) ==
  [h \in {allEvents[n].name : n \in
            {m \in DOMAIN allEvents :
               /\ allEvents[m].type \in {"priced", "safe", "convertible"}
               /\ allEvents[m].proRata
               /\ Truthy(Get(current, allEvents[m].name))
               /\ allEvents[m].name # event.name
               /\ allEvents[m].name \in event.participations}} |->
     RMul(newShares, RDiv(current[h], total))]

\* mutant: every listed holder of the table takes pro-rata
getProRatas_everyListedHolder(current, event, newShares, total, firstPricedRound, allEvents) ==
  [h \in (DOMAIN current \cap event.participations) \ {AVAILABLE_OPTIONS_LABEL, event.name} |->
     RMul(newShares, RDiv(current[h], total))]

getProRatas(current, event, newShares, total, firstPricedRound, allEvents) ==
  proRatasUpTo(allEvents, Len(allEvents) - 1, current, event, newShares, total,
               firstPricedRound)

\* parseFloat(x.toFixed(2)): nearest multiple of 1/100, ties away from zero
toFixed2(x) ==
  IF x[2] = 0 THEN x
  ELSE LET y == RMul(<<Abs(x[1]), x[2]>>, RI(100))
       IN  R(Sign(x[1]) * ((2 * y[1] + y[2]) \div (2 * y[2])), 100)

\* mutant: the grant is a percentage of the pool
getOptions_percentOfPool(current, event, total) ==
  LET reserveTarget == R(event.reserved, 100)
      reserved == IF event.reserved # 0
                  THEN [k \in {AVAILABLE_OPTIONS_LABEL} |->
                          RDiv(RMul(reserveTarget, total), RSub(One, reserveTarget))]
                  ELSE EmptyTable
      target == R(event.amount, 100)
      pool == RAdd(Get(current, AVAILABLE_OPTIONS_LABEL), Get(reserved, AVAILABLE_OPTIONS_LABEL))
      sharesToGrant == RMul(pool, target)
      grantLabel == IF event.grantName # "" THEN event.grantName ELSE EMPLOYEE_OPTIONS_LABEL
  IN  IF event.amount # 0 /\ RLe(target, toFixed2(RDiv(pool, total)))
      THEN [k \in {AVAILABLE_OPTIONS_LABEL, grantLabel} |->
              IF k = AVAILABLE_OPTIONS_LABEL
              THEN RSub(Get(reserved, AVAILABLE_OPTIONS_LABEL), sharesToGrant)
              ELSE sharesToGrant]
      ELSE reserved

\* mutant: the grant is made whatever the pool holds
getOptions_withoutGate(current, event, total) ==
  LET reserveTarget == R(event.reserved, 100)
      reserved == IF event.reserved # 0
                  THEN [k \in {AVAILABLE_OPTIONS_LABEL} |->
                          RDiv(RMul(reserveTarget, total), RSub(One, reserveTarget))]
                  ELSE EmptyTable
      sharesToGrant == RMul(RAdd(total, Get(reserved, AVAILABLE_OPTIONS_LABEL)),
                            R(event.amount, 100))
      grantLabel == IF event.grantName # "" THEN event.grantName ELSE EMPLOYEE_OPTIONS_LABEL
  IN  IF event.amount # 0
      THEN [k \in {AVAILABLE_OPTIONS_LABEL, grantLabel} |->
              IF k = AVAILABLE_OPTIONS_LABEL
              THEN RSub(Get(reserved, AVAILABLE_OPTIONS_LABEL), sharesToGrant)
              ELSE sharesToGrant]
      ELSE reserved

\* mutant: the reserve tops the existing pool up to the reserved percentage
getOptions_topUp(current, event, total) ==
  LET reserveTarget == R(event.reserved, 100)
      reserved == IF event.reserved # 0
                  THEN [k \in {AVAILABLE_OPTIONS_LABEL} |->
                          RDiv(RSub(RMul(reserveTarget, total),
                                    Get(current, AVAILABLE_OPTIONS_LABEL)),
                               RSub(One, reserveTarget))]
                  ELSE EmptyTable
      target == R(event.amount, 100)
      poolFraction == toFixed2(RDiv(RAdd(Get(current, AVAILABLE_OPTIONS_LABEL),
                                         Get(reserved, AVAILABLE_OPTIONS_LABEL)), total))
      sharesToGrant == RMul(RAdd(total, Get(reserved, AVAILABLE_OPTIONS_LABEL)), target)
      grantLabel == IF event.grantName # "" THEN event.grantName ELSE EMPLOYEE_OPTIONS_LABEL
  IN  IF event.amount # 0 /\ RLe(target, poolFraction)
      THEN [k \in {AVAILABLE_OPTIONS_LABEL, grantLabel} |->
              IF k = AVAILABLE_OPTIONS_LABEL
              THEN RSub(Get(reserved, AVAILABLE_OPTIONS_LABEL), sharesToGrant)
              ELSE sharesToGrant]
      ELSE reserved

getOptions(current, event, total) ==
  LET reserveTarget == R(event.reserved, 100)
      reserved == IF event.reserved # 0
                  THEN [k \in {AVAILABLE_OPTIONS_LABEL} |->
                          RDiv(RMul(reserveTarget, total), RSub(One, reserveTarget))]
                  ELSE EmptyTable
      target == R(event.amount, 100)
      poolFraction == toFixed2(RDiv(RAdd(Get(current, AVAILABLE_OPTIONS_LABEL),
                                         Get(reserved, AVAILABLE_OPTIONS_LABEL)), total))
      sharesToGrant == RMul(RAdd(total, Get(reserved, AVAILABLE_OPTIONS_LABEL)), target)
      grantLabel == IF event.grantName # "" THEN event.grantName ELSE EMPLOYEE_OPTIONS_LABEL
      granted == [k \in {grantLabel} |-> RAdd(Get(reserved, grantLabel), sharesToGrant)]
      withGrant == [k \in DOMAIN reserved \cup {grantLabel} |->
                      IF k = grantLabel THEN granted[k] ELSE reserved[k]]
  IN  IF event.amount # 0 /\ RLe(target, poolFraction)
      THEN [k \in DOMAIN withGrant \cup {AVAILABLE_OPTIONS_LABEL} |->
              IF k = AVAILABLE_OPTIONS_LABEL
              THEN RSub(Get(withGrant, AVAILABLE_OPTIONS_LABEL), sharesToGrant)
              ELSE withGrant[k]]
      ELSE reserved

-----------------------------------------------------------------------------
(* One event applied to the previous snapshot *)

\* mutant: without pool the round is sized on the pre-round total
issueShares_onPreRoundTotal(evs, event, previousTable, isFirstPricedRound, converted, currentTotal, previousOptions, newOptions) ==
  LET futureTotal ==
        IF event.options # 0
        THEN RDiv(RAdd(previousOptions, newOptions), R(event.options, 100))
        ELSE RMul(currentTotal, RAdd(One, RDiv(RI(event.amount), RI(event.valuation))))
      newInvestorsShares == RSub(RSub(futureTotal, currentTotal), newOptions)
      proRatas == getProRatas(addTables(previousTable, converted), event,
                              newInvestorsShares, currentTotal, isFirstPricedRound, evs)
      mainInvestorShares == RSub(newInvestorsShares, getTableTotalShares(proRatas))
      withOptions == addTables(addTables(converted, proRatas),
                               [k \in {AVAILABLE_OPTIONS_LABEL} |-> newOptions])
  IN  addTables(previousTable,
                addTables(withOptions, [k \in {event.name} |-> mainInvestorShares]))

\* mutant: futureTotal is taken from the new pool shares alone
issueShares_newPoolOnly(evs, event, previousTable, isFirstPricedRound, converted, currentTotal, previousOptions, newOptions) ==
  LET futureTotal ==
        IF event.options # 0
        THEN RDiv(newOptions, R(event.options, 100))
        ELSE RDiv(currentTotal, RSub(One, RDiv(RI(event.amount), RI(event.valuation))))
      newInvestorsShares == RSub(RSub(futureTotal, currentTotal), newOptions)
      proRatas == getProRatas(addTables(previousTable, converted), event,
                              newInvestorsShares, currentTotal, isFirstPricedRound, evs)
      mainInvestorShares == RSub(newInvestorsShares, getTableTotalShares(proRatas))
      withOptions == addTables(addTables(converted, proRatas),
                               [k \in {AVAILABLE_OPTIONS_LABEL} |-> newOptions])
  IN  addTables(previousTable,
                addTables(withOptions, [k \in {event.name} |-> mainInvestorShares]))

\* lines 407-430 and 440: the new shares of a priced round and who receives them
issueShares(evs, event, previousTable, isFirstPricedRound, converted, currentTotal, previousOptions, newOptions) ==
  LET futureTotal ==
        IF event.options # 0
        THEN RDiv(RAdd(previousOptions, newOptions), R(event.options, 100))
        ELSE RDiv(currentTotal, RSub(One, RDiv(RI(event.amount), RI(event.valuation))))
      newShares == RSub(futureTotal, currentTotal)
      newInvestorsShares == RSub(newShares, newOptions)
      proRatas == getProRatas(addTables(previousTable, converted), event,
                              newInvestorsShares, currentTotal, isFirstPricedRound, evs)
      proRatasTotal == getTableTotalShares(proRatas)
      mainInvestorShares == RSub(newInvestorsShares, proRatasTotal)
      withProRatas == addTables(converted, proRatas)
      withOptions == addTables(withProRatas, [k \in {AVAILABLE_OPTIONS_LABEL} |-> newOptions])
      newTable == addTables(withOptions, [k \in {event.name} |-> mainInvestorShares])
  IN  addTables(previousTable, newTable)

\* lines 390-405: the new pool shares of a priced round
sizePool(evs, event, previousTable, isFirstPricedRound, converted, currentTotal, previousOptions) ==
  issueShares(evs, event, previousTable, isFirstPricedRound, converted, currentTotal,
              previousOptions,
              IF event.options # 0
              THEN getNewOptions(currentTotal, R(event.options, 100), previousOptions,
                                 RI(event.amount), RI(event.valuation - event.amount))
              ELSE Zero)

\* getCurrentTotal() and previousOptions once newTable holds the conversions
afterConversion(evs, event, previousTable, isFirstPricedRound, oldTotal, converted) ==
  sizePool(evs, event, previousTable, isFirstPricedRound, converted,
           RAdd(getTableTotalShares(converted), oldTotal),
           Get(previousTable, AVAILABLE_OPTIONS_LABEL))

\* lines 381-388: the cohort (lastPriced, currentEventIndex] converts on oldTotal
convertCohort(evs, event, previousTable, lastPriced, currentEventIndex, oldTotal) ==
  afterConversion(evs, event, previousTable, lastPriced = -1, oldTotal,
                  addTables(addTables(EmptyTable,
                                      getSafesWithNotes(evs, event, oldTotal, lastPriced,
                                                        currentEventIndex)),
                            getConvertibleNotes(evs, event, oldTotal, lastPriced,
                                                currentEventIndex)))

\* mutant: an event that issues no shares enters the table with 0 shares
getNewTable_entersOnIssue(evs, event, previousTable, lastPriced, currentEventIndex) ==
  IF event.type = "priced"
  THEN convertCohort(evs, event, previousTable, lastPriced, currentEventIndex,
                     getTableTotalShares(previousTable))
  ELSE IF event.type = "options"
  THEN addTables(previousTable,
                 getOptions(previousTable, event, getTableTotalShares(previousTable)))
  ELSE addTables(previousTable, [k \in {event.name} |-> Zero])

getNewTable(evs, event, previousTable, lastPriced, currentEventIndex) ==
  IF event.type = "priced"
  THEN convertCohort(evs, event, previousTable, lastPriced, currentEventIndex,
                     getTableTotalShares(previousTable))
  ELSE IF event.type = "options"
  THEN addTables(previousTable,
                 getOptions(previousTable, event, getTableTotalShares(previousTable)))
  ELSE previousTable

-----------------------------------------------------------------------------
(* getCapTables as a state machine *)

Last(seq) == seq[Len(seq)]

NoExit == [type |-> "null"]

\* mutant: if (exit) instead of if (exit?.amount)
exitAmount_presence(x) == IF x = NoExit THEN 0 ELSE 1

\* exit?.amount as a truthy number
exitAmount(x) == IF x = NoExit THEN 0 ELSE x.amount

\* what a conversion step worked on (locals of getSafesWithNotes / getConvertibleNotes)
cohortOf(evs, pricedRound, totalShares, afterIndex, beforeOrAtIndex, snapshot) ==
  LET safesBase == getSafesValuations(evs, pricedRound, afterIndex, beforeOrAtIndex)
      notesBase == getConvertibleNotesValuations(evs, pricedRound, afterIndex, beforeOrAtIndex)
  IN  [snapshot    |-> snapshot,
       valuation   |-> pricedRound.valuation,
       afterIndex  |-> afterIndex,
       oldTotal    |-> totalShares,
       safesBase   |-> safesBase,
       notesBase   |-> notesBase,
       safes       |-> getSafesWithMFN(safesBase, notesBase),
       notes       |-> getConvertibleNotesWithMFN(notesBase, safesBase),
       converted   |-> addTables(addTables(EmptyTable,
                                           getSafesWithNotes(evs, pricedRound, totalShares,
                                                             afterIndex, beforeOrAtIndex)),
                                 getConvertibleNotes(evs, pricedRound, totalShares,
                                                     afterIndex, beforeOrAtIndex))]

exitPricedRound(x) ==
  [type |-> "priced", name |-> "Exit", amount |-> 0, valuation |-> x.amount,
   options |-> 0, proRata |-> FALSE, participations |-> {},
   monthsToRound |-> EXIT_MONTHS_TO_ROUND]

\* mutant: the exit converts every SAFE and note of the store again
exitConversion_fromStart(evs, x, currentTable, lastPriced) ==
  LET oldTotal == getTableTotalShares(currentTable)
      safesTable == getSafesWithNotes(evs, exitPricedRound(x), oldTotal, -1, Len(evs) - 1)
      notesTable == getConvertibleNotes(evs, exitPricedRound(x), oldTotal, -1, Len(evs) - 1)
  IN  addTables(addTables(currentTable, safesTable), notesTable)

\* the snapshot of the exit conversion
exitConversion(evs, x, currentTable, lastPriced) ==
  LET oldTotal == getTableTotalShares(currentTable)
      safesTable == getSafesWithNotes(evs, exitPricedRound(x), oldTotal, lastPriced,
                                      Len(evs) - 1)
      notesTable == getConvertibleNotes(evs, exitPricedRound(x), oldTotal, lastPriced,
                                        Len(evs) - 1)
  IN  addTables(addTables(currentTable, safesTable), notesTable)

\* mutant: the pool is distributed in proportion to the total with the pool
distributeOptions_overWholeTotal(currentTable) ==
  LET availableOptions == currentTable[AVAILABLE_OPTIONS_LABEL]
      total == getTableTotalShares(currentTable)
  IN  addTables(currentTable,
                [key \in DOMAIN currentTable |->
                   IF key = AVAILABLE_OPTIONS_LABEL THEN RNeg(availableOptions)
                   ELSE RMul(RDiv(currentTable[key], total), availableOptions)])

\* the snapshot in which the remaining pool is distributed
distributeOptions(currentTable) ==
  LET availableOptions == currentTable[AVAILABLE_OPTIONS_LABEL]
      total == RSub(getTableTotalShares(currentTable), availableOptions)
      distributedOptions ==
        [key \in DOMAIN currentTable |->
           IF key = AVAILABLE_OPTIONS_LABEL THEN RNeg(availableOptions)
           ELSE RMul(RDiv(currentTable[key], total), availableOptions)]
  IN  addTables(currentTable, distributedOptions)

\* mutant: the loop never records the priced round it has applied
ForEachEvent_forgetsPricedRound ==
  /\ pc = "forEach"
  /\ index < Len(events)
  /\ tables' = Append(tables, getNewTable(events, Ev(events, index), Last(tables), -1, index))
  /\ conv' = IF Ev(events, index).type = "priced"
             THEN Append(conv, cohortOf(events, Ev(events, index),
                                        getTableTotalShares(Last(tables)),
                                        -1, index, Len(tables)))
             ELSE conv
  /\ index' = index + 1
  /\ UNCHANGED <<founders, events, exit, pc, lastPricedRoundIndex>>

\* events.forEach body: push the snapshot of event `index`
ForEachEvent ==
  /\ pc = "forEach"
  /\ index < Len(events)
  /\ LET event == Ev(events, index)
         previousTable == Last(tables)
     IN  /\ tables' = Append(tables, getNewTable(events, event, previousTable,
                                                 lastPricedRoundIndex, index))
         /\ lastPricedRoundIndex' = IF event.type = "priced" THEN index
                                    ELSE lastPricedRoundIndex
         /\ conv' = IF event.type = "priced"
                    THEN Append(conv, cohortOf(events, event,
                                               getTableTotalShares(previousTable),
                                               lastPricedRoundIndex, index, Len(tables)))
                    ELSE conv
  /\ index' = index + 1
  /\ UNCHANGED <<founders, events, exit, pc>>

\* mutant: the exit block never pushes the option distribution
ExitBlock_noDistribution ==
  /\ pc = "forEach"
  /\ index = Len(events)
  /\ LET unconverted == {i \in Indices(events) :
                           /\ Ev(events, i).type \in {"safe", "convertible"}
                           /\ i > lastPricedRoundIndex}
         convertSome == exitAmount(exit) # 0 /\ unconverted # {}
     IN  /\ tables' = IF convertSome
                      THEN Append(tables, exitConversion(events, exit, Last(tables),
                                                         lastPricedRoundIndex))
                      ELSE tables
         /\ conv' = IF convertSome
                    THEN Append(conv, cohortOf(events, exitPricedRound(exit),
                                               getTableTotalShares(Last(tables)),
                                               lastPricedRoundIndex, Len(events) - 1,
                                               Len(tables)))
                    ELSE conv
  /\ pc' = "done"
  /\ UNCHANGED <<founders, events, exit, lastPricedRoundIndex, index>>

\* the if (exit?.amount) block after the loop, and the return
ExitBlock ==
  /\ pc = "forEach"
  /\ index = Len(events)
  /\ LET unconverted == {i \in Indices(events) :
                           /\ Ev(events, i).type \in {"safe", "convertible"}
                           /\ i > lastPricedRoundIndex}
         convertSome == exitAmount(exit) # 0 /\ unconverted # {}
         currentTable == IF convertSome
                         THEN exitConversion(events, exit, Last(tables), lastPricedRoundIndex)
                         ELSE Last(tables)
         pushed == IF convertSome THEN Append(tables, currentTable) ELSE tables
     IN  /\ tables' = IF exitAmount(exit) # 0 /\ Truthy(Get(currentTable, AVAILABLE_OPTIONS_LABEL))
                      THEN Append(pushed, distributeOptions(currentTable))
                      ELSE pushed
         /\ conv' = IF convertSome
                    THEN Append(conv, cohortOf(events, exitPricedRound(exit),
                                               getTableTotalShares(Last(tables)),
                                               lastPricedRoundIndex, Len(events) - 1,
                                               Len(tables)))
                    ELSE conv
  /\ pc' = "done"
  /\ UNCHANGED <<founders, events, exit, lastPricedRoundIndex, index>>

Next == ForEachEvent \/ ExitBlock

-----------------------------------------------------------------------------
(* Inputs *)

\* longest event list drawn
MaxEvents == 3

\* event i (0-based) is named EventNames[i + 1]: holder names are unique keys
EventNames == <<"E0", "E1", "E2", "E3", "E4", "E5", "E6">>

SafeEvents(n, amounts, valCaps, discounts, mfns, proRatas) ==
  {[type |-> "safe", name |-> n, amount |-> a, valCap |-> c, discount |-> d,
    mfn |-> m, proRata |-> p] :
     a \in amounts, c \in valCaps, d \in discounts, m \in mfns, p \in proRatas}

NoteEvents(n, amounts, rates, terms, valCaps, discounts, mfns, proRatas) ==
  {[type |-> "convertible", name |-> n, amount |-> a, interestRate |-> r, term |-> t,
    valCap |-> c, discount |-> d, mfn |-> m, proRata |-> p] :
     a \in amounts, r \in rates, t \in terms, c \in valCaps, d \in discounts,
     m \in mfns, p \in proRatas}

PricedEvents(n, amounts, valuations, optionss, proRatas, participationss, months) ==
  {[type |-> "priced", name |-> n, amount |-> a, valuation |-> v, options |-> o,
    proRata |-> p, participations |-> ps, monthsToRound |-> mo] :
     a \in amounts, v \in valuations, o \in optionss, p \in proRatas,
     ps \in participationss, mo \in months}

OptionsEvents(reserveds, amounts, grantNames) ==
  {[type |-> "options", reserved |-> r, amount |-> a, grantName |-> g] :
     r \in reserveds, a \in amounts, g \in grantNames}

AcceleratorEvents(n, amounts) ==
  {[type |-> "accelerator", name |-> n, programName |-> n, amount |-> a] : a \in amounts}

\* the names of the events before position i
EarlierNames(i) == {EventNames[j + 1] : j \in 0 .. (i - 1)}

\* holders that no SAFE, note or priced event names
OtherHolders ==
  {"Founder", "Founder A", "Founder B", "Founder C",
   AVAILABLE_OPTIONS_LABEL, EMPLOYEE_OPTIONS_LABEL}

\* the events a store of the given kind may hold at position i
Menu(kind, i) ==
  LET n == EventNames[i + 1]
  IN  CASE kind = "deferred" ->
             SafeEvents(n, {1000000}, {5000000, 0}, {0, 20}, {FALSE}, {FALSE})
             \cup NoteEvents(n, {400000}, {25}, {12}, {4000000}, {0}, {FALSE}, {FALSE})
             \cup PricedEvents(n, {2000000}, {10000000}, {0, 10}, {FALSE}, {{}}, {12})
             \cup OptionsEvents({20}, {0}, {""})
        [] kind = "terms" ->
             SafeEvents(n, {1000000}, {0, 5000000, 9000000}, {0, 20}, {FALSE}, {FALSE})
             \cup NoteEvents(n, {400000}, {25}, {12}, {4000000}, {0}, {FALSE}, {FALSE})
             \cup NoteEvents(n, {400000}, {25}, {12}, {0}, {20}, {FALSE}, {FALSE})
             \cup PricedEvents(n, {2000000}, {10000000}, {0}, {FALSE}, {{}}, {12})
        [] kind = "notes" ->
             SafeEvents(n, {1000000}, {5000000}, {0}, {FALSE}, {FALSE})
             \cup NoteEvents(n, {400000}, {25}, {6, 12}, {4000000}, {0}, {FALSE}, {FALSE})
             \cup PricedEvents(n, {2000000}, {10000000}, {0}, {FALSE}, {{}}, {3, 12, 24})
        [] kind = "pool" ->
             SafeEvents(n, {1000000}, {5000000}, {0}, {FALSE}, {TRUE})
             \cup NoteEvents(n, {400000}, {25}, {12}, {4000000}, {0}, {FALSE}, {FALSE})
             \cup PricedEvents(n, {2000000}, {10000000}, {0, 10, 20}, {TRUE},
                               {{}, EarlierNames(i)}, {12})
             \cup OptionsEvents({20}, {0}, {""})
             \cup OptionsEvents({0}, {5}, {""})
        [] kind = "rounds" ->
             SafeEvents(n, {1000000}, {5000000}, {0}, {FALSE}, {TRUE})
             \cup PricedEvents(n, {1000000, 2000000}, {10000000}, {0, 10}, {TRUE},
                               {{}, EarlierNames(i)}, {12})
             \cup OptionsEvents({20}, {0}, {""})
        [] kind = "degenerate" ->
             SafeEvents(n, {1000000}, {0, 5000000}, {0, 100}, {FALSE}, {FALSE})
             \cup NoteEvents(n, {400000}, {25}, {12}, {4000000}, {0}, {FALSE}, {FALSE})
             \cup PricedEvents(n, {2000000}, {10000000}, {0}, {FALSE}, {{}}, {12})
        [] kind = "conversion" ->
             SafeEvents(n, {1000000}, {10000000, 5000000}, {0}, {FALSE}, {FALSE, TRUE})
             \cup NoteEvents(n, {400000}, {25}, {12}, {4000000}, {0}, {FALSE}, {FALSE})
             \cup PricedEvents(n, {2000000}, {10000000}, {0, 10}, {TRUE},
                               {{}, EarlierNames(i)}, {12})
        [] kind = "ceiling" ->
             SafeEvents(n, {1000000}, {12000000, 5000000}, {0}, {FALSE, TRUE}, {FALSE})
             \cup SafeEvents(n, {1000000}, {0, 12000000}, {20}, {FALSE}, {FALSE})
             \cup NoteEvents(n, {400000}, {25}, {12}, {12000000}, {0}, {TRUE}, {FALSE})
             \cup PricedEvents(n, {2000000}, {10000000}, {0}, {FALSE}, {{}}, {12})
        [] kind = "prorata" ->
             SafeEvents(n, {1000000}, {5000000}, {0}, {FALSE}, {FALSE, TRUE})
             \cup NoteEvents(n, {400000}, {25}, {12}, {4000000}, {0}, {FALSE}, {TRUE})
             \cup PricedEvents(n, {2000000}, {10000000}, {0}, {FALSE, TRUE},
                               {{}, EarlierNames(i + 1) \cup OtherHolders}, {12})
             \cup OptionsEvents({20}, {5}, {""})
        [] kind = "options" ->
             PricedEvents(n, {2000000}, {10000000}, {10}, {FALSE}, {{}}, {12})
             \cup OptionsEvents({20}, {0, 5, 25, 50}, {""})
             \cup OptionsEvents({0}, {5}, {"", "CTO"})
             \cup OptionsEvents({0}, {25}, {""})
        [] kind = "accelerator" ->
             SafeEvents(n, {1000000}, {5000000}, {0}, {FALSE}, {TRUE})
             \cup NoteEvents(n, {400000}, {25}, {12}, {4000000}, {0}, {FALSE}, {TRUE})
             \cup AcceleratorEvents(n, {100000})
             \cup PricedEvents(n, {2000000}, {10000000}, {0, 10}, {TRUE},
                               {{}, EarlierNames(i)}, {12})
             \cup OptionsEvents({20}, {5}, {""})
        [] kind = "mfn" ->
             SafeEvents(n, {1000000}, {8000000, 5000000}, {0}, {FALSE, TRUE}, {FALSE})
             \cup NoteEvents(n, {400000}, {25}, {12}, {8000000, 4000000}, {0},
                             {FALSE, TRUE}, {FALSE})
             \cup PricedEvents(n, {2000000}, {10000000}, {0}, {FALSE}, {{}}, {12})
        [] kind = "overdilution" ->
             SafeEvents(n, {1000000, 4000000}, {5000000}, {0}, {FALSE}, {FALSE})
             \cup NoteEvents(n, {400000}, {25}, {12}, {1000000}, {0}, {FALSE}, {FALSE})
             \cup PricedEvents(n, {2000000}, {10000000}, {0}, {FALSE}, {{}}, {12})
        [] kind = "grants" ->
             SafeEvents(n, {1000000}, {5000000}, {0}, {FALSE}, {FALSE})
             \cup NoteEvents(n, {400000}, {25}, {12}, {4000000}, {0}, {FALSE}, {FALSE})
             \cup PricedEvents(n, {2000000}, {10000000}, {0, 10}, {FALSE}, {{}}, {12})
             \cup OptionsEvents({0, 20}, {5, 25}, {""})
             \cup OptionsEvents({20}, {0}, {""})

RECURSIVE EventLists(_, _)
EventLists(kind, len) ==
  IF len = 0 THEN {<< >>}
  ELSE {Append(s, e) : s \in EventLists(kind, len - 1), e \in Menu(kind, len - 1)}

Stores(kind) == UNION {EventLists(kind, len) : len \in 0 .. MaxEvents}

FounderLists ==
  {<<[name |-> "Founder", equity |-> 100]>>,
   <<[name |-> "Founder A", equity |-> 60], [name |-> "Founder B", equity |-> 40]>>,
   <<[name |-> "Founder A", equity |-> 60], [name |-> "Founder B", equity |-> 30],
     [name |-> "Founder C", equity |-> 10]>>}

Exits(amounts) == {NoExit} \cup {[amount |-> a, tax |-> 20] : a \in amounts}

InitWith(kind, exitAmounts) ==
  /\ founders \in FounderLists
  /\ events \in Stores(kind)
  /\ exit \in Exits(exitAmounts)
  /\ tables = <<getFirstTable(founders)>>
  /\ lastPricedRoundIndex = -1
  /\ index = 0
  /\ pc = "forEach"
  /\ conv = << >>

Init == InitWith("deferred", {0, 4000000})

Spec == Init /\ [][Next]_vars

\* stores with every combination of cap and discount
InitTerms == InitWith("terms", {4000000})

SpecTerms == InitTerms /\ [][Next]_vars

\* stores with notes of different terms and rounds at different months
InitNotes == InitWith("notes", {10000000})

SpecNotes == InitNotes /\ [][Next]_vars

\* stores with pool targets, reserves, grants and pro-rata participations
InitPool == InitWith("pool", {})

SpecPool == InitPool /\ [][Next]_vars

\* stores of priced rounds of two sizes, with and without pool and pro-rata
InitRounds == InitWith("rounds", {})

SpecRounds == InitRounds /\ [][Next]_vars

\* stores with SAFEs whose discount of 100% makes their valuation zero
InitDegenerate == InitWith("degenerate", {4000000})

SpecDegenerate == InitDegenerate /\ [][Next]_vars

\* stores whose cohorts stay below the dilution cap
InitConversion == InitWith("conversion", {4000000})

SpecConversion == InitConversion /\ [][Next]_vars

\* stores with caps above the valuation of the rounds and of the exit
InitCeiling == InitWith("ceiling", {4000000})

SpecCeiling == InitCeiling /\ [][Next]_vars

\* stores whose rounds list every holder of the table as participant
InitProRata == InitWith("prorata", {})

SpecProRata == InitProRata /\ [][Next]_vars

\* stores of option reserves and grants of several sizes and recipients
InitOptions == InitWith("options", {})

SpecOptions == InitOptions /\ [][Next]_vars

\* stores with equity-free accelerator events among the other events
InitAccelerator == InitWith("accelerator", {4000000})

SpecAccelerator == InitAccelerator /\ [][Next]_vars

\* stores with MFN-flagged SAFEs and notes
InitMFN == InitWith("mfn", {10000000})

SpecMFN == InitMFN /\ [][Next]_vars

\* stores whose SAFEs and notes claim more than the whole company
InitOverDilution == InitWith("overdilution", {0, 10000000})

SpecOverDilution == InitOverDilution /\ [][Next]_vars

\* stores with option reserves and grants
InitGrants == InitWith("grants", {0, 4000000})

SpecGrants == InitGrants /\ [][Next]_vars

-----------------------------------------------------------------------------
(* Vocabulary of the properties *)

\* tables[k] of the code
Snapshot(k) == tables[k + 1]

\* the snapshot pushed for event i
SnapshotOfEvent(i) == Snapshot(i + 1)

IsInstrument(e) == e.type \in {"safe", "convertible"}

PricedAfter(i) == {j \in Indices(events) : j > i /\ Ev(events, j).type = "priced"}

\* index of the first priced round after event i, or -1
FirstPricedAfter(i) ==
  IF PricedAfter(i) = {} THEN -1
  ELSE CHOOSE j \in PricedAfter(i) : \A l \in PricedAfter(i) : j <= l

\* the instruments no priced round converts
Unconverted == {i \in Indices(events) : IsInstrument(Ev(events, i)) /\ PricedAfter(i) = {}}

IsPositive(a) == IsFinite(a) /\ a[1] > 0

ExitPositive == exit # NoExit /\ exit.amount > 0

\* the conversion record of snapshot k
ConvOf(k) == conv[CHOOSE c \in DOMAIN conv : conv[c].snapshot = k]

\* the instrument of event i as the conversion of snapshot k used it
UsedAt(k, i) ==
  IF Ev(events, i).type = "safe" THEN ConvOf(k).safes[i] ELSE ConvOf(k).notes[i]

\* raw dilution sum of the conversion of snapshot k
RawDilution(k) ==
  RAdd(totalDilutionOf(ConvOf(k).safes, DOMAIN ConvOf(k).safes),
       totalDilutionOf(ConvOf(k).notes, DOMAIN ConvOf(k).notes))

-----------------------------------------------------------------------------
(* C1 .. C3: deferred conversion *)

\* C1: a SAFE or note at event index i has no entry under its name in the
\* snapshot of event i nor in the snapshots of the events up to the first
\* priced round j > i, and a positive entry in the snapshot of event j.
C1_DeferredUntilNextPricedRound ==
  \A i \in Indices(events) :
    IsInstrument(Ev(events, i)) =>
      \A k \in i .. (index - 1) :
        LET j == FirstPricedAfter(i)
            name == Ev(events, i).name
        IN  /\ (j = -1 \/ k < j) => ~Has(SnapshotOfEvent(k), name)
            /\ k = j => Has(SnapshotOfEvent(k), name) /\ IsPositive(SnapshotOfEvent(k)[name])

\* a SAFE or note issued after a priced round has been converted by the next one
C1_Witness ==
  \E p, i, j \in Indices(events) :
    /\ p < i /\ i < j /\ j < index
    /\ Ev(events, p).type = "priced"
    /\ IsInstrument(Ev(events, i))
    /\ j = FirstPricedAfter(i)
    /\ ~Has(SnapshotOfEvent(p), Ev(events, i).name)
    /\ Has(SnapshotOfEvent(j), Ev(events, i).name)

\* C2: with no priced round after it and the exit absent or of amount zero,
\* a SAFE or note has an entry in no snapshot getCapTables returns.
C2_NeverConvertedWithoutRoundOrExit ==
  pc = "done" /\ ~ExitPositive =>
    \A i \in Unconverted :
      \A k \in DOMAIN tables : ~Has(tables[k], Ev(events, i).name)

\* getCapTables returned with a SAFE or note behind the last priced round and
\* an exit of amount zero
C2_Witness ==
  /\ pc = "done"
  /\ exit # NoExit /\ exit.amount = 0
  /\ lastPricedRoundIndex >= 0
  /\ Unconverted # {}

\* C3: with a positive exit amount and an unconverted SAFE or note, one
\* snapshot follows the last event snapshot: every such instrument holds
\* positive shares, converted against the exit amount as valuation (a higher
\* cap is replaced by it), there is no new investor and no new pool share,
\* and every holder already in the table keeps its share count.
C3_ExitConversion ==
  pc = "done" /\ ExitPositive /\ Unconverted # {} =>
    /\ Len(tables) >= Len(events) + 2
    /\ LET k == Len(events) + 1
           before == Snapshot(k - 1)
           after == Snapshot(k)
       IN  /\ DOMAIN after = DOMAIN before \cup {Ev(events, i).name : i \in Unconverted}
           /\ \A h \in DOMAIN before : after[h] = before[h]
           /\ ConvOf(k).valuation = exit.amount
           /\ \A i \in Unconverted :
                LET e == Ev(events, i)
                    used == UsedAt(k, i)
                IN  /\ IsPositive(after[e.name])
                    /\ RLe(used.valuation, RI(exit.amount))
                    /\ (e.valCap = 0 \/ e.valCap > exit.amount) /\ e.discount = 0 /\ ~e.mfn
                         => used.valuation = RI(exit.amount)
                    /\ RLe(RawDilution(k), DILUTION_CAP)
                         => RDiv(after[e.name], getTableTotalShares(after))
                              = RDiv(used.amount, used.valuation)

\* an exit conversion after a priced round of an instrument capped above the
\* exit amount
C3_Witness ==
  /\ pc = "done"
  /\ ExitPositive
  /\ lastPricedRoundIndex >= 0
  /\ \E i \in Unconverted : Ev(events, i).valCap > exit.amount
  /\ Len(tables) >= Len(events) + 2

-----------------------------------------------------------------------------
(* C4: non-negativity *)

\* C4: every holder of every snapshot, the 'Available' pool included, has
\* shares >= 0 (the stores of SpecGrants have positive amounts, amount <
\* valuation and percentages in [0, 100)).
C4_NoNegativeShares ==
  \A k \in DOMAIN tables : \A h \in DOMAIN tables[k] : RLe(Zero, tables[k][h])

-----------------------------------------------------------------------------
(* C5: over-dilution safeguard *)

\* the instruments of the conversion of snapshot k, by event index
CohortOf(k) == DOMAIN ConvOf(k).safes \cup DOMAIN ConvOf(k).notes

\* amount / valuation of instrument i as the conversion of snapshot k used it
DilutionAt(k, i) == RDiv(UsedAt(k, i).amount, UsedAt(k, i).valuation)

OverDiluted(k) == RLt(DILUTION_CAP, RawDilution(k))

\* C5: when the raw dilution sum of a cohort exceeds 0.999, the cohort
\* receives together 0.999 of the post-conversion total T / (1 - 0.999), the
\* earlier holders keep their shares, no instrument is negative, and the
\* instruments' shares stand in the ratio of their amount / valuation.
C5_OverDilutionSafeguard ==
  \A c \in DOMAIN conv :
    LET k == conv[c].snapshot
        T == conv[c].oldTotal
        newTotal == RDiv(T, RSub(One, R(999, 1000)))
        got == conv[c].converted
    IN  OverDiluted(k) =>
          /\ getTableTotalShares(got) = RMul(R(999, 1000), newTotal)
          /\ RAdd(T, getTableTotalShares(got)) = newTotal
          /\ \A h \in DOMAIN Snapshot(k - 1) : Snapshot(k)[h] = Snapshot(k - 1)[h]
          /\ \A i \in CohortOf(k) :
               /\ RLe(Zero, got[Ev(events, i).name])
               /\ Snapshot(k)[Ev(events, i).name] = got[Ev(events, i).name]
          /\ \A i, j \in CohortOf(k) :
               RMul(got[Ev(events, i).name], DilutionAt(k, j))
                 = RMul(got[Ev(events, j).name], DilutionAt(k, i))

\* a SAFE and a note with different amount / valuation converted together
\* above the cap
C5_Witness ==
  \E c \in DOMAIN conv :
    /\ OverDiluted(conv[c].snapshot)
    /\ DOMAIN conv[c].safes # {}
    /\ DOMAIN conv[c].notes # {}
    /\ \E i, j \in CohortOf(conv[c].snapshot) :
         DilutionAt(conv[c].snapshot, i) # DilutionAt(conv[c].snapshot, j)

-----------------------------------------------------------------------------
(* C6, C7: MFN resolution *)

\* instrument i before MFN resolution, in the conversion of snapshot k
BaseAt(k, i) ==
  IF Ev(events, i).type = "safe" THEN ConvOf(k).safesBase[i] ELSE ConvOf(k).notesBase[i]

\* the cohort members of snapshot k issued after event i
LaterPeers(k, i) == {j \in CohortOf(k) : j > i}

\* v is the least of the valuation of i and of its later peers, before MFN
IsLowestFrom(k, i, v) ==
  /\ v \in {BaseAt(k, j).valuation : j \in LaterPeers(k, i) \cup {i}}
  /\ \A j \in LaterPeers(k, i) \cup {i} : RLe(v, BaseAt(k, j).valuation)

FromOn(insts, i) == [j \in {l \in DOMAIN insts : l >= i} |-> insts[j]]

-----------------------------------------------------------------------------
(* C8: pool target of a priced round *)

\* the priced rounds already applied that carry a pool target they can meet
PoolRounds ==
  {i \in 0 .. (index - 1) :
     /\ Ev(events, i).type = "priced"
     /\ Ev(events, i).options > 0
     /\ RLt(RAdd(R(Ev(events, i).options, 100),
                 R(Ev(events, i).amount, Ev(events, i).valuation)), One)}

\* C8: after a priced round with pool target f > 0 and f + amount/valuation
\* < 1, 'Available' is f of the total of that snapshot (exactly, hence within
\* 0.5 percentage points), whatever the pool was before the round and whether
\* or not instruments convert or holders take pro-rata.
C8_PoolIsTargetOfPostRoundTotal ==
  \A i \in PoolRounds :
    /\ Has(SnapshotOfEvent(i), AVAILABLE_OPTIONS_LABEL)
    /\ SnapshotOfEvent(i)[AVAILABLE_OPTIONS_LABEL]
         = RMul(R(Ev(events, i).options, 100), getTableTotalShares(SnapshotOfEvent(i)))

\* a pool round on a table that already had a pool, in which a SAFE converts
\* and takes pro-rata shares on top of its conversion shares
C8_Witness ==
  \E i \in PoolRounds :
    /\ IsPositive(Get(Snapshot(i), AVAILABLE_OPTIONS_LABEL))
    /\ \E j \in DOMAIN ConvOf(i + 1).safes :
         RLt(ConvOf(i + 1).converted[Ev(events, j).name],
             SnapshotOfEvent(i)[Ev(events, j).name])

-----------------------------------------------------------------------------
(* C9, C10: instrument valuation and accrued interest *)

\* C9: the effective valuation against a round of valuation V is
\* min(cap, V * (1 - discount/100)) with cap and discount, min(cap, V) with a
\* cap only, V * (1 - discount/100) with a discount only, V with neither.
C9_EffectiveValuation ==
  \A c \in DOMAIN conv :
    \A i \in CohortOf(conv[c].snapshot) :
      LET e == Ev(events, i)
          v == BaseAt(conv[c].snapshot, i).valuation
          V == RI(conv[c].valuation)
          D == R(conv[c].valuation * (100 - e.discount), 100)
      IN  /\ e.valCap > 0 /\ e.discount > 0 =>
               v = (IF RLt(RI(e.valCap), D) THEN RI(e.valCap) ELSE D)
          /\ e.valCap > 0 /\ e.discount = 0 =>
               v = (IF e.valCap < conv[c].valuation THEN RI(e.valCap) ELSE V)
          /\ e.valCap = 0 /\ e.discount > 0 => v = D
          /\ e.valCap = 0 /\ e.discount = 0 => v = V

\* against V = 10,000,000 a SAFE with cap 5,000,000 and discount 20 converts
\* at 5,000,000 and one with cap 9,000,000 and discount 20 at 8,000,000
C9_Witness ==
  \E c \in DOMAIN conv :
    /\ conv[c].valuation = 10000000
    /\ \E i, j \in DOMAIN conv[c].safes :
         /\ Ev(events, i).valCap = 5000000 /\ Ev(events, i).discount = 20
         /\ conv[c].safes[i].valuation = RI(5000000)
         /\ Ev(events, j).valCap = 9000000 /\ Ev(events, j).discount = 20
         /\ conv[c].safes[j].valuation = RI(8000000)

\* the conversions made by priced rounds
RoundConversions == {c \in DOMAIN conv : conv[c].snapshot <= Len(events)}

-----------------------------------------------------------------------------
(* C11: a plain priced round *)

\* index of the last priced round before event i, or -1
LastPricedBefore(i) ==
  LET earlier == {j \in 0 .. (i - 1) : Ev(events, j).type = "priced"}
  IN  IF earlier = {} THEN -1 ELSE CHOOSE j \in earlier : \A l \in earlier : l <= j

\* the SAFEs and notes the priced round at event i converts
CohortBefore(i) ==
  {j \in (LastPricedBefore(i) + 1) .. (i - 1) : IsInstrument(Ev(events, j))}

\* the holders of the table before event i that may take pro-rata in round i
ProRataParticipants(i) ==
  {j \in Indices(events) :
     /\ Ev(events, j).type \in {"priced", "safe", "convertible"}
     /\ Ev(events, j).proRata
     /\ Ev(events, j).name \in Ev(events, i).participations
     /\ j # i
     /\ Has(Snapshot(i), Ev(events, j).name)}

\* the applied priced rounds without pool target, cohort or pro-rata participant
PlainRounds ==
  {i \in 0 .. (index - 1) :
     /\ Ev(events, i).type = "priced"
     /\ Ev(events, i).options = 0
     /\ CohortBefore(i) = {}
     /\ ProRataParticipants(i) = {}}

RECURSIVE Pow(_, _)
Pow(a, k) == IF k = 0 THEN One ELSE RMul(a, Pow(a, k - 1))

\* shares held by the founders in table t
FounderShares(t) == SumOver(t, {founders[f].name : f \in DOMAIN founders})

\* C11: a priced round with no pool target, no cohort and no pro-rata
\* participant turns total T into T / (1 - amount/valuation), gives its named
\* investor amount/valuation of the new total and leaves every earlier holder
\* its share count; after k rounds of 20% on the founder table the founders
\* hold 0.8^k.
C11_PlainRoundDilutesByAmountOverValuation ==
  \A i \in PlainRounds :
    LET e == Ev(events, i)
        before == Snapshot(i)
        after == SnapshotOfEvent(i)
        fraction == R(e.amount, e.valuation)
    IN  /\ getTableTotalShares(after)
             = RDiv(getTableTotalShares(before), RSub(One, fraction))
        /\ after[e.name] = RMul(fraction, getTableTotalShares(after))
        /\ \A h \in DOMAIN before : after[h] = before[h]
        /\ DOMAIN after = DOMAIN before \cup {e.name, AVAILABLE_OPTIONS_LABEL}
        /\ Get(after, AVAILABLE_OPTIONS_LABEL) = Get(before, AVAILABLE_OPTIONS_LABEL)
        /\ (\A j \in 0 .. i : j \in PlainRounds /\ R(Ev(events, j).amount,
                                                     Ev(events, j).valuation) = R(1, 5))
             => RDiv(FounderShares(after), getTableTotalShares(after)) = Pow(R(4, 5), i + 1)

\* one founder, then 2,000,000 at 10,000,000: founder 10,000,000, investor
\* 2,500,000, total 12,500,000; and a third 20% round in a row
C11_Witness ==
  /\ {0, 1, 2} \subseteq PlainRounds
  /\ Len(founders) = 1
  /\ Ev(events, 0).amount = 2000000
  /\ Shares(SnapshotOfEvent(0)[founders[1].name]) = RI(10000000)
  /\ Shares(SnapshotOfEvent(0)[Ev(events, 0).name]) = RI(2500000)
  /\ Shares(getTableTotalShares(SnapshotOfEvent(0))) = RI(12500000)
  /\ Ev(events, 1).amount = 2000000 /\ Ev(events, 2).amount = 2000000

-----------------------------------------------------------------------------
(* C12: the founder table *)

\* C12: snapshot 0 holds exactly the founders, each with equity/100 *
\* 10,000,000 shares, whatever the events and the exit are.
C12_FounderTable ==
  /\ DOMAIN Snapshot(0) = {founders[f].name : f \in DOMAIN founders}
  /\ \A f \in DOMAIN founders :
       Shares(Snapshot(0)[founders[f].name]) = R(founders[f].equity * INITIAL_SHARES, 100)

\* founders {60, 30, 10} hold {6,000,000, 3,000,000, 1,000,000} of 10,000,000
\* in snapshot 0 of a run with events and an exit that has returned
C12_Witness ==
  /\ pc = "done" /\ Len(events) > 0 /\ ExitPositive /\ Len(tables) > Len(events) + 1
  /\ Len(founders) = 3
  /\ Shares(Snapshot(0)["Founder A"]) = RI(6000000)
  /\ Shares(Snapshot(0)["Founder B"]) = RI(3000000)
  /\ Shares(Snapshot(0)["Founder C"]) = RI(1000000)
  /\ Shares(getTableTotalShares(Snapshot(0))) = RI(10000000)

-----------------------------------------------------------------------------
(* C13: order and number of the snapshots *)

\* 1 when the exit conversion pushes a snapshot, else 0
ExitConversionSnapshots == IF ExitPositive /\ Unconverted # {} THEN 1 ELSE 0

\* 1 when the table after the events and the exit conversion has a pool to
\* distribute at a positive exit, else 0
DistributionSnapshots ==
  IF /\ ExitPositive
     /\ Truthy(Get(Snapshot(Len(events) + ExitConversionSnapshots), AVAILABLE_OPTIONS_LABEL))
  THEN 1 ELSE 0

\* C13: getCapTables returns the founder table, then for k = 1..n event k-1
\* applied to snapshot k-1, then one exit-conversion snapshot only if the exit
\* amount is positive and a SAFE or note is unconverted, then one
\* option-distribution snapshot only if the exit amount is positive and
\* 'Available' is non-zero in the latest snapshot; n+1 snapshots with no exit
\* or an exit of amount zero.
C13_SnapshotOrder ==
  /\ Snapshot(0) = getFirstTable(founders)
  /\ index > 0 =>
       Snapshot(index) = getNewTable(events, Ev(events, index - 1), Snapshot(index - 1),
                                     LastPricedBefore(index - 1), index - 1)
  /\ pc = "forEach" => Len(tables) = index + 1
  /\ pc = "done" =>
       /\ index = Len(events)
       /\ Len(tables) = Len(events) + 1 + ExitConversionSnapshots + DistributionSnapshots
       /\ ~ExitPositive => Len(tables) = Len(events) + 1
       /\ ExitConversionSnapshots = 1 =>
            /\ \A i \in Unconverted : Has(Snapshot(Len(events) + 1), Ev(events, i).name)
            /\ \A i \in Unconverted : ~Has(Snapshot(Len(events)), Ev(events, i).name)
       /\ DistributionSnapshots = 1 =>
            /\ Last(tables)[AVAILABLE_OPTIONS_LABEL] = Zero
            /\ IsPositive(tables[Len(tables) - 1][AVAILABLE_OPTIONS_LABEL])

\* a run over three events that returned six snapshots
C13_Witness ==
  /\ pc = "done" /\ Len(events) = 3
  /\ ExitConversionSnapshots = 1 /\ DistributionSnapshots = 1
  /\ Len(tables) = 6

-----------------------------------------------------------------------------
(* C14: distribution of the remaining pool at exit *)

\* getCapTables returned with a distribution of a positive pool as last snapshot
PoolDistributed ==
  /\ pc = "done"
  /\ DistributionSnapshots = 1
  /\ IsPositive(tables[Len(tables) - 1][AVAILABLE_OPTIONS_LABEL])

\* C14: at a positive exit with a positive 'Available' in the latest table,
\* the final snapshot has 'Available' = 0 and the same total, every other
\* holder is multiplied by total / (total - available), so proportions among
\* holders are unchanged, and the instruments converted by the exit
\* conversion take part.
C14_PoolDistributedProportionally ==
  PoolDistributed =>
    LET before == tables[Len(tables) - 1]
        after == Last(tables)
        total == getTableTotalShares(before)
        available == before[AVAILABLE_OPTIONS_LABEL]
        factor == RDiv(total, RSub(total, available))
        holders == DOMAIN before \ {AVAILABLE_OPTIONS_LABEL}
    IN  /\ DOMAIN after = DOMAIN before
        /\ after[AVAILABLE_OPTIONS_LABEL] = Zero
        /\ getTableTotalShares(after) = total
        /\ \A h \in holders : after[h] = RMul(before[h], factor)
        /\ \A g, h \in holders :
             RDiv(after[g], after[h]) = RDiv(before[g], before[h])
        /\ ExitConversionSnapshots = 1 =>
             \A i \in Unconverted :
               /\ Ev(events, i).name \in holders
               /\ RLt(before[Ev(events, i).name], after[Ev(events, i).name])

\* a pool distributed over founders, an investor and a SAFE converted at exit
C14_Witness ==
  /\ PoolDistributed
  /\ ExitConversionSnapshots = 1
  /\ lastPricedRoundIndex >= 0
  /\ \E i \in Unconverted : Ev(events, i).type = "safe"

-----------------------------------------------------------------------------
(* C15: degenerate divisions *)

\* C15: an instrument whose effective valuation is 0 receives 0 shares and
\* every entry of the snapshot of its conversion is a finite number.
C15_ZeroValuationGivesZeroShares ==
  \A c \in DOMAIN conv :
    \A i \in CohortOf(conv[c].snapshot) :
      UsedAt(conv[c].snapshot, i).valuation = Zero =>
        /\ Snapshot(conv[c].snapshot)[Ev(events, i).name] = Zero
        /\ \A h \in DOMAIN Snapshot(conv[c].snapshot) :
             IsFinite(Snapshot(conv[c].snapshot)[h])

-----------------------------------------------------------------------------
(* C16: the cohorts partition the SAFEs and notes *)

\* the conversions that issued shares to the instrument of event i
ConversionsOf(i) == {c \in DOMAIN conv : i \in CohortOf(conv[c].snapshot)}

\* C16: each SAFE or note is in the cohort of at most one conversion, that of
\* the first priced round after its index or, failing that, the exit
\* conversion; once a priced round has converted it, no later priced round
\* and no exit conversion changes its share count again.
C16_CohortsPartitionInstruments ==
  \A i \in Indices(events) :
    IsInstrument(Ev(events, i)) =>
      LET j == FirstPricedAfter(i)
          name == Ev(events, i).name
      IN  /\ Cardinality(ConversionsOf(i)) <= 1
          /\ \A c \in ConversionsOf(i) :
               conv[c].snapshot = IF j # -1 THEN j + 1 ELSE Len(events) + 1
          /\ (j # -1 /\ j < index) =>
               /\ Cardinality(ConversionsOf(i)) = 1
               /\ \A k \in j .. (index - 1) :
                    SnapshotOfEvent(k)[name] = SnapshotOfEvent(j)[name]
               /\ (pc = "done" /\ ExitConversionSnapshots = 1) =>
                    Snapshot(Len(events) + 1)[name] = SnapshotOfEvent(j)[name]

\* getCapTables returned after a priced round converted one instrument and
\* the exit conversion another
C16_Witness ==
  /\ pc = "done"
  /\ ExitConversionSnapshots = 1
  /\ \E i \in Indices(events) :
       /\ IsInstrument(Ev(events, i))
       /\ FirstPricedAfter(i) # -1
       /\ Cardinality(ConversionsOf(i)) = 1
       /\ Has(Last(tables), Ev(events, i).name)

-----------------------------------------------------------------------------
(* C17: the MFN search space is the conversion cohort *)

\* the store with the caps of the SAFEs and notes up to event `upto` lowered
WithCheapInstrumentsUpTo(upto) ==
  [n \in DOMAIN events |->
     IF n - 1 <= upto /\ IsInstrument(events[n])
     THEN [events[n] EXCEPT !.valCap = 1000000]
     ELSE events[n]]

\* the round the conversion of snapshot k converts against
RoundOf(k) == IF k <= Len(events) THEN Ev(events, k - 1) ELSE exitPricedRound(exit)

\* C17: the snapshot of a priced round R, and so the shares of every
\* MFN-flagged instrument it converts, is the one computed on the store cut
\* after R, whatever SAFEs or notes follow R; and the valuations a cohort
\* converts at do not change when the instruments converted by earlier rounds
\* are given lower caps.
C17_MFNSearchesTheCohortOnly ==
  \A c \in DOMAIN conv :
    LET k == conv[c].snapshot
        after == conv[c].afterIndex
        cheap == WithCheapInstrumentsUpTo(after)
        safesBase == getSafesValuations(cheap, RoundOf(k), after, k - 1)
        notesBase == getConvertibleNotesValuations(cheap, RoundOf(k), after, k - 1)
    IN  /\ c \in RoundConversions =>
             Snapshot(k) = getNewTable(SubSeq(events, 1, k), Ev(events, k - 1),
                                       Snapshot(k - 1), after, k - 1)
        /\ \A i \in CohortOf(k) : after < i /\ i < k
        /\ conv[c].safes = getSafesWithMFN(safesBase, notesBase)
        /\ conv[c].notes = getConvertibleNotesWithMFN(notesBase, safesBase)

\* an MFN SAFE converted by a round at its own cap of 8,000,000 while the
\* store holds a SAFE capped at 5,000,000 issued after that round
C17_Witness ==
  \E c \in RoundConversions :
    \E i \in DOMAIN conv[c].safes, j \in Indices(events) :
      /\ Ev(events, i).mfn /\ Ev(events, i).valCap = 8000000
      /\ j > conv[c].snapshot - 1
      /\ Ev(events, j).type = "safe" /\ Ev(events, j).valCap = 5000000
      /\ conv[c].safes[i].valuation = RI(8000000)
      /\ IsPositive(Snapshot(conv[c].snapshot)[Ev(events, i).name])

-----------------------------------------------------------------------------
(* C18: the investors' part of a round with a pool target *)

\* the pro-rata shares holder h took in the priced round at event i
ProRataAward(i, h) ==
  RSub(RSub(SnapshotOfEvent(i)[h], Get(Snapshot(i), h)), Get(ConvOf(i + 1).converted, h))

\* the holders of the priced round at event i other than its investor and the pool
EarlierHolders(i) ==
  (DOMAIN Snapshot(i) \cup DOMAIN ConvOf(i + 1).converted)
    \ {AVAILABLE_OPTIONS_LABEL, Ev(events, i).name}

\* the named investor's shares plus all pro-rata awards of the round at event i
InvestorSide(i) ==
  RAdd(SnapshotOfEvent(i)[Ev(events, i).name],
       SumOver([h \in EarlierHolders(i) |-> ProRataAward(i, h)], EarlierHolders(i)))

\* C18: at a priced round with pool target f > 0 and f + amount/valuation < 1
\* the named investor and the pro-rata awards hold together amount/valuation
\* of the post-round total.
C18_InvestorSideIsAmountOverValuation ==
  \A i \in PoolRounds :
    InvestorSide(i) = RMul(R(Ev(events, i).amount, Ev(events, i).valuation),
                           getTableTotalShares(SnapshotOfEvent(i)))

\* one founder, then 2,000,000 at 10,000,000 with a 10% pool: investor 20%,
\* pool 10%, founder 70%
C18_Witness ==
  /\ 0 \in PoolRounds
  /\ Len(founders) = 1
  /\ Ev(events, 0).options = 10
  /\ LET t == SnapshotOfEvent(0)
         total == getTableTotalShares(t)
     IN  /\ RDiv(t[Ev(events, 0).name], total) = R(20, 100)
         /\ RDiv(t[AVAILABLE_OPTIONS_LABEL], total) = R(10, 100)
         /\ RDiv(t[founders[1].name], total) = R(70, 100)

-----------------------------------------------------------------------------
(* C19: conversion below the dilution cap *)

\* C19: when the raw dilution sum of a cohort is at most 0.999, each
\* instrument receives newTotal * amount/valuation conversion shares with
\* newTotal = T / (1 - sum) on the pre-round total T, the sum running over the
\* SAFEs and the notes together; these are amount/valuation of the
\* post-conversion total and, after a round without pool, amount/valuation *
\* (1 - round amount / round valuation) of the post-round total.
C19_ConversionBeforeIssuance ==
  \A c \in DOMAIN conv :
    LET k == conv[c].snapshot
        T == getTableTotalShares(Snapshot(k - 1))
        sum == RawDilution(k)
        newTotal == RDiv(T, RSub(One, sum))
    IN  ~OverDiluted(k) =>
          /\ conv[c].oldTotal = T
          /\ RAdd(T, getTableTotalShares(conv[c].converted)) = newTotal
          /\ \A i \in CohortOf(k) :
               LET shares == conv[c].converted[Ev(events, i).name]
               IN  /\ shares = RMul(newTotal, DilutionAt(k, i))
                   /\ RDiv(shares, newTotal) = DilutionAt(k, i)
                   /\ RLe(shares, Snapshot(k)[Ev(events, i).name])
                   /\ (c \in RoundConversions /\ RoundOf(k).options = 0) =>
                        RDiv(shares, getTableTotalShares(Snapshot(k)))
                          = RMul(DilutionAt(k, i),
                                 RSub(One, R(RoundOf(k).amount, RoundOf(k).valuation)))
                   /\ c \notin RoundConversions => Snapshot(k)[Ev(events, i).name] = shares

\* a SAFE of 1,000,000 capped at 10,000,000 holding 8% after a round of
\* 2,000,000 at 10,000,000
C19_Witness ==
  \E c \in RoundConversions :
    LET k == conv[c].snapshot
    IN  /\ RoundOf(k).options = 0
        /\ \E i \in DOMAIN conv[c].safes :
             /\ Ev(events, i).valCap = 10000000
             /\ CohortOf(k) = {i}
             /\ RDiv(Snapshot(k)[Ev(events, i).name], getTableTotalShares(Snapshot(k)))
                  = R(8, 100)

-----------------------------------------------------------------------------
(* C20: the round valuation is a ceiling *)

\* C20: every SAFE and note converts, at a priced round or at exit, at a
\* valuation that after cap, discount and MFN is at most the valuation of the
\* round (the exit amount at exit), also when its cap is above it.
C20_ValuationAtMostRoundValuation ==
  \A c \in DOMAIN conv :
    LET k == conv[c].snapshot
    IN  /\ conv[c].valuation = RoundOf(k).valuation
        /\ c \notin RoundConversions => conv[c].valuation = exit.amount
        /\ \A i \in CohortOf(k) :
             /\ RLe(BaseAt(k, i).valuation, RI(conv[c].valuation))
             /\ RLe(UsedAt(k, i).valuation, RI(conv[c].valuation))
             /\ RLe(UsedAt(k, i).valuation, BaseAt(k, i).valuation)

\* a SAFE capped at 12,000,000 converted at 10,000,000 by a round, and an MFN
\* SAFE capped at 12,000,000 converted at 4,000,000 by the exit
C20_Witness ==
  /\ \E c \in RoundConversions : \E i \in DOMAIN conv[c].safes :
       /\ Ev(events, i).valCap = 12000000 /\ Ev(events, i).discount = 0
       /\ conv[c].safes[i].valuation = RI(10000000)
  /\ \E c \in DOMAIN conv \ RoundConversions : \E i \in DOMAIN conv[c].safes :
       /\ Ev(events, i).valCap = 12000000 /\ Ev(events, i).mfn
       /\ conv[c].safes[i].valuation = RI(4000000)

-----------------------------------------------------------------------------
(* C21 .. C23: pro-rata *)

\* the applied priced rounds
AppliedRounds == {i \in 0 .. (index - 1) : Ev(events, i).type = "priced"}

\* the table of the round at event i after its conversions
AfterConversions(i) == addTables(Snapshot(i), ConvOf(i + 1).converted)

\* the holders that took pro-rata shares in the round at event i
Awarded(i) == {h \in EarlierHolders(i) : ProRataAward(i, h) # Zero}

\* the events of type safe, convertible or priced that carry name h with proRata set
ProRataEventsOf(h) ==
  {j \in Indices(events) :
     /\ Ev(events, j).type \in {"safe", "convertible", "priced"}
     /\ Ev(events, j).name = h
     /\ Ev(events, j).proRata}

\* C21: a holder takes pro-rata shares in a priced round only if a safe,
\* convertible or priced event carries its name with proRata set, it has
\* non-zero shares after the round's conversions, it is not the round's own
\* name and it is in the round's participations; founders, the pool and
\* option grantees take none.
C21_ProRataOnlyForEligibleHolders ==
  \A i \in AppliedRounds :
    /\ \A h \in Awarded(i) :
         /\ ProRataEventsOf(h) # {}
         /\ Truthy(Get(AfterConversions(i), h))
         /\ h # Ev(events, i).name
         /\ h \in Ev(events, i).participations
    /\ Awarded(i) \cap OtherHolders = {}

\* a round that lists the founders, the grantees and a flagged SAFE: the SAFE
\* takes pro-rata shares, the founders and the grantees none
C21_Witness ==
  \E i \in AppliedRounds :
    /\ Awarded(i) # {}
    /\ EMPLOYEE_OPTIONS_LABEL \in DOMAIN Snapshot(i) \cap Ev(events, i).participations
    /\ founders[1].name \in Ev(events, i).participations
    /\ IsPositive(Snapshot(i)[EMPLOYEE_OPTIONS_LABEL])
    /\ SnapshotOfEvent(i)[EMPLOYEE_OPTIONS_LABEL] = Snapshot(i)[EMPLOYEE_OPTIONS_LABEL]

\* the holders entitled to pro-rata in the round at event i
Eligible(i) ==
  {h \in EarlierHolders(i) :
     /\ \E j \in ProRataEventsOf(h) :
          Ev(events, j).type = "priced" \/ LastPricedBefore(i) = -1
     /\ Truthy(Get(AfterConversions(i), h))
     /\ h \in Ev(events, i).participations}

\* the applied priced rounds without pool target
RoundsWithoutPool == {i \in AppliedRounds : Ev(events, i).options = 0}

\* C22: in a priced round without pool target every eligible participating
\* holder keeps the fraction it had of the pre-round total after conversions,
\* and the round's investor receives amount/valuation of the new total minus
\* the pro-rata awards, which is not negative.
C22_ProRataKeepsOwnership ==
  \A i \in RoundsWithoutPool :
    LET e == Ev(events, i)
        current == AfterConversions(i)
        after == SnapshotOfEvent(i)
        investorSide == RMul(R(e.amount, e.valuation), getTableTotalShares(after))
        awards == SumOver([h \in Awarded(i) |-> ProRataAward(i, h)], Awarded(i))
    IN  /\ Awarded(i) = Eligible(i)
        /\ \A h \in Eligible(i) :
             RDiv(after[h], getTableTotalShares(after))
               = RDiv(current[h], getTableTotalShares(current))
        /\ after[e.name] = RSub(investorSide, awards)
        /\ RLe(Zero, after[e.name])

\* a seed investor holding 20% takes pro-rata in a 20% round: it still holds
\* 20% and the round's investor holds 16%
C22_Witness ==
  \E i \in RoundsWithoutPool :
    \E j \in 0 .. (i - 1) :
      /\ Ev(events, j).type = "priced"
      /\ Ev(events, j).name \in Eligible(i)
      /\ RDiv(Snapshot(i)[Ev(events, j).name], getTableTotalShares(Snapshot(i))) = R(20, 100)
      /\ RDiv(SnapshotOfEvent(i)[Ev(events, j).name],
              getTableTotalShares(SnapshotOfEvent(i))) = R(20, 100)
      /\ RDiv(SnapshotOfEvent(i)[Ev(events, i).name],
              getTableTotalShares(SnapshotOfEvent(i))) = R(16, 100)

\* the priced rounds applied after an earlier priced round
LaterRounds == {i \in AppliedRounds : LastPricedBefore(i) # -1}

\* the names of the SAFE and note events
InstrumentNames == {Ev(events, j).name : j \in {l \in Indices(events) : IsInstrument(Ev(events, l))}}

\* C23: at every priced round after the first no holder named by a SAFE or
\* note event takes pro-rata shares, converted earlier or in this round,
\* flagged and listed or not; the holders that do are earlier priced-round
\* investors.
C23_InstrumentsProRataAtFirstRoundOnly ==
  \A i \in LaterRounds :
    /\ Awarded(i) \cap InstrumentNames = {}
    /\ \A h \in Awarded(i) :
         \E j \in 0 .. (i - 1) : Ev(events, j).type = "priced" /\ Ev(events, j).name = h
    /\ \A j \in 0 .. (i - 1) :
         IsInstrument(Ev(events, j)) =>
           SnapshotOfEvent(i)[Ev(events, j).name] = AfterConversions(i)[Ev(events, j).name]

\* a second round that lists a flagged SAFE converted by the first round and
\* the first round's flagged investor: only the investor takes pro-rata
C23_Witness ==
  \E i \in LaterRounds :
    /\ \E j \in 0 .. (i - 1) :
         /\ IsInstrument(Ev(events, j)) /\ Ev(events, j).proRata
         /\ Ev(events, j).name \in Ev(events, i).participations
         /\ IsPositive(Snapshot(i)[Ev(events, j).name])
    /\ \E j \in 0 .. (i - 1) :
         Ev(events, j).type = "priced" /\ Ev(events, j).name \in Awarded(i)

-----------------------------------------------------------------------------
(* C24 .. C27: option events *)

\* the applied options events
AppliedOptions == {i \in 0 .. (index - 1) : Ev(events, i).type = "options"}

\* the applied options events that reserve and do not grant
ReserveOnly == {i \in AppliedOptions : Ev(events, i).reserved > 0 /\ Ev(events, i).amount = 0}

\* the shares an options event reserving r% adds on total T
ReservedShares(r, T) == RDiv(RMul(R(r, 100), T), RSub(One, R(r, 100)))

\* C24: an options event with reserved = r > 0 and no grant adds r/100 * T /
\* (1 - r/100) shares to 'Available', r% of the new total; every other holder
\* keeps its shares; without an earlier pool 'Available' is r% of the new
\* total, with one the reserve comes on top of it.
C24_ReserveAddsToPool ==
  \A i \in ReserveOnly :
    LET r == Ev(events, i).reserved
        before == Snapshot(i)
        after == SnapshotOfEvent(i)
        added == ReservedShares(r, getTableTotalShares(before))
    IN  /\ DOMAIN after = DOMAIN before \cup {AVAILABLE_OPTIONS_LABEL}
        /\ after[AVAILABLE_OPTIONS_LABEL] = RAdd(Get(before, AVAILABLE_OPTIONS_LABEL), added)
        /\ added = RMul(R(r, 100), getTableTotalShares(after))
        /\ \A h \in DOMAIN before \ {AVAILABLE_OPTIONS_LABEL} : after[h] = before[h]
        /\ ~Truthy(Get(before, AVAILABLE_OPTIONS_LABEL)) =>
             after[AVAILABLE_OPTIONS_LABEL] = RMul(R(r, 100), getTableTotalShares(after))
        /\ IsPositive(Get(before, AVAILABLE_OPTIONS_LABEL)) =>
             RLt(RMul(R(r, 100), getTableTotalShares(after)), after[AVAILABLE_OPTIONS_LABEL])

\* a reserve of 20% on a table without pool followed by a second reserve of
\* 20% on the table that has it
C24_Witness ==
  \E i, j \in ReserveOnly :
    /\ i < j
    /\ ~Has(Snapshot(i), AVAILABLE_OPTIONS_LABEL)
    /\ SnapshotOfEvent(i)[AVAILABLE_OPTIONS_LABEL]
         = RMul(R(20, 100), getTableTotalShares(SnapshotOfEvent(i)))
    /\ IsPositive(Snapshot(j)[AVAILABLE_OPTIONS_LABEL])

\* the pool an options event can grant from, as the gate measures it
GatePool(i) ==
  RAdd(Get(Snapshot(i), AVAILABLE_OPTIONS_LABEL),
       IF Ev(events, i).reserved > 0
       THEN ReservedShares(Ev(events, i).reserved, getTableTotalShares(Snapshot(i)))
       ELSE Zero)

\* the options event at i grants and passes the sufficiency gate
GatePasses(i) ==
  /\ Ev(events, i).amount > 0
  /\ RLe(R(Ev(events, i).amount, 100),
         toFixed2(RDiv(GatePool(i), getTableTotalShares(Snapshot(i)))))

\* the recipient of the grant of the options event at i
Recipient(i) ==
  IF Ev(events, i).grantName # "" THEN Ev(events, i).grantName ELSE EMPLOYEE_OPTIONS_LABEL

\* the applied options events that grant, pass the gate and do not reserve
GrantOnly == {i \in AppliedOptions : Ev(events, i).reserved = 0 /\ GatePasses(i)}

\* C25: a grant of g% without reserve that passes the gate moves g/100 * T
\* shares from 'Available' to the recipient (grantName, else 'Employees'),
\* on top of what the recipient holds; the total and every other holder are
\* unchanged.
C25_GrantMovesSharesFromPool ==
  \A i \in GrantOnly :
    LET before == Snapshot(i)
        after == SnapshotOfEvent(i)
        T == getTableTotalShares(before)
        moved == RMul(R(Ev(events, i).amount, 100), T)
    IN  /\ DOMAIN after = DOMAIN before \cup {Recipient(i), AVAILABLE_OPTIONS_LABEL}
        /\ after[Recipient(i)] = RAdd(Get(before, Recipient(i)), moved)
        /\ after[AVAILABLE_OPTIONS_LABEL] = RSub(Get(before, AVAILABLE_OPTIONS_LABEL), moved)
        /\ getTableTotalShares(after) = T
        /\ \A h \in DOMAIN before \ {Recipient(i), AVAILABLE_OPTIONS_LABEL} :
             after[h] = before[h]

\* a second grant of 5% to 'CTO' out of a reserved pool
C25_Witness ==
  \E i, j \in GrantOnly :
    /\ i < j
    /\ Recipient(i) = "CTO" /\ Recipient(j) = "CTO"
    /\ RLt(SnapshotOfEvent(i)["CTO"], SnapshotOfEvent(j)["CTO"])

\* the applied options events whose grant fails the sufficiency gate
GrantSkipped == {i \in AppliedOptions : Ev(events, i).amount > 0 /\ ~GatePasses(i)}

\* C26: a grant of more than the pool (existing plus reserved by the same
\* event) over T, rounded to 2 decimals, is skipped: the recipient's entry is
\* neither created nor changed, a grant-only event repeats the previous
\* snapshot and an event that also reserves applies the reserve alone.
C26_InsufficientPoolSkipsGrant ==
  \A i \in GrantSkipped :
    LET before == Snapshot(i)
        after == SnapshotOfEvent(i)
        r == Ev(events, i).reserved
    IN  /\ Has(after, Recipient(i)) <=> Has(before, Recipient(i))
        /\ Has(before, Recipient(i)) => after[Recipient(i)] = before[Recipient(i)]
        /\ r = 0 => after = before
        /\ r > 0 =>
             after = addTables(before,
                               [k \in {AVAILABLE_OPTIONS_LABEL} |->
                                  ReservedShares(r, getTableTotalShares(before))])

\* a grant of 25% skipped on a table with a smaller pool, and a grant of 50%
\* skipped in an event that reserves 20%
C26_Witness ==
  /\ \E i \in GrantSkipped :
       /\ Ev(events, i).reserved = 0
       /\ IsPositive(Get(Snapshot(i), AVAILABLE_OPTIONS_LABEL))
  /\ \E i \in GrantSkipped : Ev(events, i).reserved = 20

\* the applied options events whose grant is made
GrantApplied == {i \in AppliedOptions : GatePasses(i)}

\* the shares the options event at i grants
GrantedShares(i) ==
  RMul(RAdd(getTableTotalShares(Snapshot(i)),
            IF Ev(events, i).reserved > 0
            THEN ReservedShares(Ev(events, i).reserved, getTableTotalShares(Snapshot(i)))
            ELSE Zero),
       R(Ev(events, i).amount, 100))

\* C27: whenever a grant is applied, the granted shares (T + shares reserved
\* by the same event) * g/100 are at most the existing 'Available' plus the
\* shares reserved by the same event, and 'Available' is >= 0 after the event.
C27_GateAdmitsOnlyCoveredGrants ==
  \A i \in GrantApplied :
    /\ RLe(GrantedShares(i), GatePool(i))
    /\ RLe(Zero, SnapshotOfEvent(i)[AVAILABLE_OPTIONS_LABEL])

-----------------------------------------------------------------------------
(* C28: events that issue no shares *)

\* the applied SAFE, note and accelerator events
AppliedWithoutIssue ==
  {i \in 0 .. (index - 1) : Ev(events, i).type \in {"safe", "convertible", "accelerator"}}

\* C28: the snapshot of a SAFE, note or accelerator event has the keys and
\* share counts of the snapshot before it, and the event's name is not a
\* holder in it.
C28_NoIssueEventsLeaveTableUntouched ==
  \A i \in AppliedWithoutIssue :
    /\ SnapshotOfEvent(i) = Snapshot(i)
    /\ DOMAIN SnapshotOfEvent(i) = DOMAIN Snapshot(i)
    /\ ~Has(SnapshotOfEvent(i), Ev(events, i).name)

\* an accelerator event, a SAFE and a note applied to a table that a priced
\* round or an options event has changed before
C28_Witness ==
  /\ \E i \in AppliedWithoutIssue :
       /\ Ev(events, i).type = "accelerator"
       /\ Cardinality(DOMAIN Snapshot(i)) > Len(founders)
  /\ \E i \in AppliedWithoutIssue : Ev(events, i).type \in {"safe", "convertible"}

-----------------------------------------------------------------------------
(* C29: dilution only by issuing shares *)

\* C29: along the snapshots of getCapTables the share count of every holder
\* other than 'Available' never decreases, and a holder of a snapshot is a
\* holder of every later one.
C29_HoldersNeverLoseShares ==
  \A k \in 1 .. (Len(tables) - 1) :
    \A h \in DOMAIN tables[k] \ {AVAILABLE_OPTIONS_LABEL} :
      /\ Has(tables[k + 1], h)
      /\ RLe(tables[k][h], tables[k + 1][h])

-----------------------------------------------------------------------------
(* C30: the pool shares a priced round adds *)

\* the pool shares the priced round at event i added
NewPoolShares(i) ==
  RSub(SnapshotOfEvent(i)[AVAILABLE_OPTIONS_LABEL], Get(Snapshot(i), AVAILABLE_OPTIONS_LABEL))

\* C30: a priced round with pool target f > 0 adds a number of pool shares
\* >= 0: it takes no shares from 'Available' and does not lower the total,
\* also when the earlier pool exceeds f of the post-round total.
C30_RoundNeverShrinksPool ==
  \A i \in PoolRounds :
    /\ RLe(Zero, NewPoolShares(i))
    /\ RLe(Get(Snapshot(i), AVAILABLE_OPTIONS_LABEL), SnapshotOfEvent(i)[AVAILABLE_OPTIONS_LABEL])
    /\ RLe(getTableTotalShares(Snapshot(i)), getTableTotalShares(SnapshotOfEvent(i)))

\* the pool the round at event i is to end with: f of the total that leaves
\* the holders other than the pool, instruments converted, with 1 - f - amount/valuation
TargetPool(i) ==
  LET f == R(Ev(events, i).options, 100)
      others == RSub(getTableTotalShares(AfterConversions(i)),
                     Get(Snapshot(i), AVAILABLE_OPTIONS_LABEL))
  IN  RMul(f, RDiv(others, RSub(One, RAdd(f, R(Ev(events, i).amount, Ev(events, i).valuation)))))

\* C30 (amended): the new pool shares of a priced round with pool target
\* f > 0 are f of the post-round total minus the pool held before: >= 0, with
\* the total not lowered, when that pool is at most f of the post-round total,
\* and < 0, the round taking shares from 'Available', when it is larger.
C30_RoundFillsPoolToTarget ==
  \A i \in PoolRounds :
    LET existing == Get(Snapshot(i), AVAILABLE_OPTIONS_LABEL)
    IN  /\ NewPoolShares(i) = RSub(TargetPool(i), existing)
        /\ RLe(existing, TargetPool(i)) =>
             /\ RLe(Zero, NewPoolShares(i))
             /\ RLe(getTableTotalShares(Snapshot(i)), getTableTotalShares(SnapshotOfEvent(i)))
        /\ RLt(TargetPool(i), existing) =>
             /\ RLt(NewPoolShares(i), Zero)
             /\ RLt(SnapshotOfEvent(i)[AVAILABLE_OPTIONS_LABEL], existing)
             /\ IsPositive(SnapshotOfEvent(i)[AVAILABLE_OPTIONS_LABEL])

\* a round with a 10% target on a table whose pool is 20%: the pool shrinks
C30_Witness ==
  \E i \in PoolRounds :
    /\ Ev(events, i).options = 10
    /\ RLt(TargetPool(i), Get(Snapshot(i), AVAILABLE_OPTIONS_LABEL))
    /\ RLt(NewPoolShares(i), Zero)

====
